---- MODULE Spec2Model ----
(***************************************************************************)
(* Keithley2100VISADriver: the mode controller (set_mode), the reply       *)
(* decoder (data) and the facade operations around them.                   *)
(*                                                                         *)
(* Python strings are sequences of one-character strings, so that upper(), *)
(* the "in" test, slicing, count(), split() and float() are computed the   *)
(* way the code computes them.  An attribute that was never assigned is    *)
(* the empty tuple <<>>, an assigned one is the one-element tuple <<v>>.   *)
(***************************************************************************)
EXTENDS Integers, Sequences, FiniteSets

VARIABLES
    _instr,               \* self._instr: "None", "open" or "closed"
    instr,                \* self.instr: "" or the matching configuration key
    sample_count_1,       \* self.sample_count_1
    reading_scan_list,    \* self.reading_scan_list
    current_mode,         \* self.current_mode
    channels_scan_list,   \* self.channels_scan_list
    modes_channels_dict,  \* self.modes_channels_dict
    lastInitCont,         \* the last INIT:CONT setting written: "none", "ON", "OFF"
    lastOp,               \* the method called last
    lastArg,              \* its argument (set_mode: mode; data: the FETCH? reply)
    sent,                 \* the commands the last call handed to the transport
    result,               \* "ok" or the exception the last call raised
    returned,             \* set_mode: <<channels>> when it returned channels
    values,               \* data: array_measurements_values
    times,                \* data: array_times_values
    repeated              \* the last call was set_mode with the mode of the
                          \* set_mode call right before it

vars == <<_instr, instr, sample_count_1, reading_scan_list, current_mode,
          channels_scan_list, modes_channels_dict, lastInitCont, lastOp,
          lastArg, sent, result, returned, values, times, repeated>>

-----------------------------------------------------------------------------
(* Bounds *)

\* Largest number of channels the caller configures.
MaxChannels == 3
\* Largest number of comma-separated tokens of a FETCH? reply.
MaxTokens == 6

-----------------------------------------------------------------------------
(* String literals of the source *)

\* 'TRAC:CLE' (line 82)
s_TRAC_CLE == <<"T", "R", "A", "C", ":", "C", "L", "E">>
\* 'ROUT:OPEN:ALL' (line 93)
s_ROUT_OPEN_ALL == <<"R", "O", "U", "T", ":", "O", "P", "E", "N", ":", "A", "L", "L">>
\* 'INIT' (line 106)
s_INIT == <<"I", "N", "I", "T">>
\* '*TRG' (line 108)
s_TRG == <<"*", "T", "R", "G">>
\* 'FETCH?' (line 110)
s_FETCH == <<"F", "E", "T", "C", "H", "?">>
\* '*IDN?' (line 166)
s_IDN == <<"*", "I", "D", "N", "?">>
\* 'INIT:CONT OFF' (line 170)
s_INIT_CONT_OFF == <<"I", "N", "I", "T", ":", "C", "O", "N", "T", " ", "O", "F", "F">>
\* 'INIT:CONT ON' (line 174)
s_INIT_CONT_ON == <<"I", "N", "I", "T", ":", "C", "O", "N", "T", " ", "O", "N">>
\* '*CLS' (line 191)
s_CLS == <<"*", "C", "L", "S">>
\* '*RST' (line 193)
s_RST == <<"*", "R", "S", "T">>
\* "FUNC '" (line 211)
s_FUNC == <<"F", "U", "N", "C", " ", "'">>
\* "'" (line 211)
s_QUOTE == <<"'">>
\* 'SCAN' (line 207)
s_SCAN == <<"S", "C", "A", "N">>
\* 'SCAN_LIST' (line 220)
s_SCAN_LIST == <<"S", "C", "A", "N", "_", "L", "I", "S", "T">>
\* '(@' (line 223)
s_OPEN_AT == <<"(", "@">>
\* ')' (line 223)
s_CLOSE_PAREN == <<")">>
\* 'TRIG:COUN 1' (line 225)
s_TRIG_COUN_1 == <<"T", "R", "I", "G", ":", "C", "O", "U", "N", " ", "1">>
\* 'TRIG:SOUR BUS' (line 227)
s_TRIG_SOUR_BUS == <<"T", "R", "I", "G", ":", "S", "O", "U", "R", " ", "B", "U", "S">>
\* 'SAMP:COUN ' (line 230)
s_SAMP_COUN == <<"S", "A", "M", "P", ":", "C", "O", "U", "N", " ">>
\* 'ROUT:SCAN:LSEL NONE' (line 232)
s_ROUT_SCAN_LSEL_NONE == <<"R", "O", "U", "T", ":", "S", "C", "A", "N", ":", "L", "S", "E", "L", " ", "N", "O", "N", "E">>
\* 'ROUT:SCAN ' (line 234)
s_ROUT_SCAN == <<"R", "O", "U", "T", ":", "S", "C", "A", "N", " ">>
\* 'ROUT:SCAN:TSO IMM' (line 236)
s_ROUT_SCAN_TSO_IMM == <<"R", "O", "U", "T", ":", "S", "C", "A", "N", ":", "T", "S", "O", " ", "I", "M", "M">>
\* 'ROUT:SCAN:LSEL INT' (line 238)
s_ROUT_SCAN_LSEL_INT == <<"R", "O", "U", "T", ":", "S", "C", "A", "N", ":", "L", "S", "E", "L", " ", "I", "N", "T">>
\* 'TRIG:SOUR IMM' (line 252)
s_TRIG_SOUR_IMM == <<"T", "R", "I", "G", ":", "S", "O", "U", "R", " ", "I", "M", "M">>
\* 'ROUT:CLOS ' (line 255)
s_ROUT_CLOS == <<"R", "O", "U", "T", ":", "C", "L", "O", "S", " ">>
\* 'VOLT:DC' (line 29)
k_VOLT_DC == <<"V", "O", "L", "T", ":", "D", "C">>
\* 'VOLT:AC' (line 30)
k_VOLT_AC == <<"V", "O", "L", "T", ":", "A", "C">>
\* 'CURR:DC' (line 31)
k_CURR_DC == <<"C", "U", "R", "R", ":", "D", "C">>
\* 'CURR:AC' (line 32)
k_CURR_AC == <<"C", "U", "R", "R", ":", "A", "C">>
\* 'RES' (line 33)
k_RES == <<"R", "E", "S">>
\* 'FRES' (line 34)
k_FRES == <<"F", "R", "E", "S">>
\* 'FREQ' (line 35)
k_FREQ == <<"F", "R", "E", "Q">>
\* 'TEMP' (line 36)
k_TEMP == <<"T", "E", "M", "P">>

-----------------------------------------------------------------------------
(* Python string and list primitives *)

Unset == <<>>
IsSet(a) == a # <<>>

LowerCase == <<"a","b","c","d","e","f","g","h","i","j","k","l","m",
               "n","o","p","q","r","s","t","u","v","w","x","y","z">>
UpperCase == <<"A","B","C","D","E","F","G","H","I","J","K","L","M",
               "N","O","P","Q","R","S","T","U","V","W","X","Y","Z">>
Digits == <<"0","1","2","3","4","5","6","7","8","9">>

\* str.isdigit() of one character
IsDigit(c) == \E i \in DOMAIN Digits : Digits[i] = c

DigitValue(c) == (CHOOSE i \in DOMAIN Digits : Digits[i] = c) - 1

UpperChar(c) ==
    IF \E i \in DOMAIN LowerCase : LowerCase[i] = c
    THEN UpperCase[CHOOSE i \in DOMAIN LowerCase : LowerCase[i] = c]
    ELSE c

\* str.upper()
RECURSIVE Upper(_)
Upper(s) == IF s = <<>> THEN <<>> ELSE <<UpperChar(Head(s))>> \o Upper(Tail(s))

\* sub in s
Contains(s, sub) ==
    \E i \in 1..(Len(s) - Len(sub) + 1) : SubSeq(s, i, i + Len(sub) - 1) = sub

\* s[n:]
SliceFrom(s, n) == SubSeq(s, n + 1, Len(s))

\* s.count(c) for a one-character c
Count(s, c) == Cardinality({i \in DOMAIN s : s[i] = c})

\* str(n) for an integer n >= 0
RECURSIVE DecStr(_)
DecStr(n) ==
    IF n < 10 THEN <<Digits[n + 1]>>
    ELSE DecStr(n \div 10) \o <<Digits[(n % 10) + 1]>>

\* sep.join(parts)
RECURSIVE Join(_, _)
Join(parts, sep) ==
    IF parts = <<>> THEN <<>>
    ELSE IF Len(parts) = 1 THEN parts[1]
    ELSE parts[1] \o sep \o Join(Tail(parts), sep)

\* str(l) for a list of integers: '[101, 102]'
PyListStr(l) ==
    <<"[">> \o Join([i \in DOMAIN l |-> DecStr(l[i])], <<",", " ">>) \o <<"]">>

\* s[1:-1]
StripBrackets(s) == SubSeq(s, 2, Len(s) - 1)

-----------------------------------------------------------------------------
(* Channel configuration assigned by the caller *)

\* Keys of modes_channels_dict
ModeKeys == {k_VOLT_DC, k_VOLT_AC, k_CURR_DC, k_CURR_AC,
             k_RES, k_FRES, k_FREQ, k_TEMP}

\* Functions the enumerated configurations assign channels to
AssignedKeys == {k_VOLT_DC, k_RES}

\* Channel identifiers of an n-channel configuration: 101, 102, ...
ChannelIds(n) == [i \in 1..n |-> 100 + i]

RECURSIVE Filter(_, _, _)
\* the channels of ids whose assigned function is key, in order
Filter(ids, assign, key) ==
    IF ids = <<>> THEN <<>>
    ELSE (IF assign[1] = key THEN <<ids[1]>> ELSE <<>>)
         \o Filter(Tail(ids), Tail(assign), key)

\* channels_scan_list of a scan list: '101,102'
ScanListStr(ids) == Join([i \in DOMAIN ids |-> DecStr(ids[i])], <<",">>)

\* modes_channels_dict of an assignment of functions to channels
ModesDict(ids, assign) == [k \in ModeKeys |-> Filter(ids, assign, k)]

-----------------------------------------------------------------------------
(* Transport *)

\* The exception self._instr.write/query raises when no session is open
TransportError ==
    IF _instr = "None" THEN "AttributeError" ELSE "InvalidSession"

\* The INIT:CONT setting in force after the commands cmds were written
RECURSIVE InitContAfter(_, _)
InitContAfter(prev, cmds) ==
    IF cmds = <<>> THEN prev
    ELSE InitContAfter(
            IF Head(cmds) = s_INIT_CONT_ON THEN "ON"
            ELSE IF Head(cmds) = s_INIT_CONT_OFF THEN "OFF"
            ELSE prev,
            Tail(cmds))

-----------------------------------------------------------------------------
(* set_mode *)

\* SampCount counting the commas only
SampCount_CommasOnly(channels) == Count(channels, ",")

\* samp_count = 1 + channels.count(',')
SampCount(channels) == 1 + Count(channels, ",")

\* "FUNC '" + mode + "'"
FuncCmd(mode) == s_FUNC \o mode \o s_QUOTE

\* '(@' + s + ')'
ChannelsStr(s) == s_OPEN_AT \o s \o s_CLOSE_PAREN

\* The outcome of one call: commands written, attributes after, exception
Outcome(cmds, sc1, rsl, cm, res, ret) ==
    [sent |-> cmds, sample_count_1 |-> sc1, reading_scan_list |-> rsl,
     current_mode |-> cm, result |-> res, returned |-> ret]

\* FrontPanel without the assignment to reading_scan_list
FrontPanel_KeepsScanFlag(mode) ==
    Outcome(<<s_INIT_CONT_ON, FuncCmd(mode)>>,
            <<TRUE>>, reading_scan_list, current_mode, "ok", <<>>)

\* FRONT panel branch
FrontPanel(mode) ==
    Outcome(<<s_INIT_CONT_ON, FuncCmd(mode)>>,
            <<TRUE>>, <<FALSE>>, current_mode, "ok", <<>>)

\* RearPreamble without init_cont_off()
RearPreamble_NoContOff == <<s_TRAC_CLE>>

\* clear_buffer(); init_cont_off()
RearPreamble == <<s_TRAC_CLE, s_INIT_CONT_OFF>>

\* ScanListBranch enabling the scan before the channel list is programmed
ScanListBranch_EnablesFirst(mode) ==
    IF ~IsSet(channels_scan_list)
    THEN Outcome(RearPreamble, <<FALSE>>, <<TRUE>>, <<mode>>,
                 "AttributeError", <<>>)
    ELSE LET channels == ChannelsStr(channels_scan_list[1])
             samp_count == SampCount(channels)
         IN Outcome(RearPreamble \o
                    <<s_TRIG_COUN_1,
                      s_TRIG_SOUR_BUS,
                      s_SAMP_COUN \o DecStr(samp_count),
                      s_ROUT_SCAN_LSEL_NONE,
                      s_ROUT_SCAN_LSEL_INT,
                      s_ROUT_SCAN \o channels,
                      s_ROUT_SCAN_TSO_IMM>>,
                    <<FALSE>>, <<TRUE>>, <<mode>>, "ok", <<channels>>)

\* REAR panel, 'SCAN_LIST' in mode
ScanListBranch(mode) ==
    IF ~IsSet(channels_scan_list)
    THEN Outcome(RearPreamble, <<FALSE>>, <<TRUE>>, <<mode>>,
                 "AttributeError", <<>>)
    ELSE LET channels == ChannelsStr(channels_scan_list[1])
             samp_count == SampCount(channels)
         IN Outcome(RearPreamble \o
                    <<s_TRIG_COUN_1,
                      s_TRIG_SOUR_BUS,
                      s_SAMP_COUN \o DecStr(samp_count),
                      s_ROUT_SCAN_LSEL_NONE,
                      s_ROUT_SCAN \o channels,
                      s_ROUT_SCAN_TSO_IMM,
                      s_ROUT_SCAN_LSEL_INT>>,
                    <<FALSE>>, <<TRUE>>, <<mode>>, "ok", <<channels>>)

\* SingleChannelBranch flipping sample_count_1 instead of setting it
SingleChannelBranch_Toggle(mode, channels, head) ==
    LET cmds == head \o <<s_INIT_CONT_ON,
                          s_TRIG_SOUR_IMM,
                          s_ROUT_SCAN_LSEL_NONE,
                          s_ROUT_CLOS \o channels,
                          FuncCmd(mode)>>
    IN IF ~IsSet(sample_count_1)
       THEN Outcome(cmds, sample_count_1, <<FALSE>>, <<mode>>,
                    "AttributeError", <<>>)
       ELSE Outcome(cmds, <<~sample_count_1[1]>>, <<FALSE>>, <<mode>>,
                    "ok", <<channels>>)

\* REAR panel, function-filtered channels, samp_count == 1
SingleChannelBranch(mode, channels, head) ==
    LET cmds == head \o <<s_INIT_CONT_ON,
                          s_TRIG_SOUR_IMM,
                          s_ROUT_SCAN_LSEL_NONE,
                          s_ROUT_CLOS \o channels,
                          FuncCmd(mode)>>
    IN IF ~IsSet(sample_count_1)
       THEN Outcome(cmds, sample_count_1, <<FALSE>>, <<mode>>,
                    "AttributeError", <<>>)
       ELSE Outcome(cmds, <<TRUE>>, <<FALSE>>, <<mode>>, "ok", <<channels>>)

\* MultiChannelBranch enabling continuous initiation as the single-channel
\* branch does
MultiChannelBranch_ContOn(mode, channels, head) ==
    Outcome(head \o <<s_INIT_CONT_ON,
                      s_TRIG_SOUR_BUS,
                      s_ROUT_SCAN_LSEL_NONE,
                      s_ROUT_SCAN \o channels,
                      s_ROUT_SCAN_TSO_IMM,
                      s_ROUT_SCAN_LSEL_INT>>,
            <<FALSE>>, <<FALSE>>, <<mode>>, "ok", <<channels>>)

\* REAR panel, function-filtered channels, samp_count > 1
MultiChannelBranch(mode, channels, head) ==
    Outcome(head \o <<s_TRIG_SOUR_BUS,
                      s_ROUT_SCAN_LSEL_NONE,
                      s_ROUT_SCAN \o channels,
                      s_ROUT_SCAN_TSO_IMM,
                      s_ROUT_SCAN_LSEL_INT>>,
            <<FALSE>>, <<FALSE>>, <<mode>>, "ok", <<channels>>)

\* REAR panel, 'SCAN_LIST' not in mode
FilteredBranch(mode) ==
    IF ~IsSet(modes_channels_dict)
    THEN Outcome(RearPreamble, sample_count_1, <<FALSE>>, <<mode>>,
                 "AttributeError", <<>>)
    ELSE IF mode \notin DOMAIN modes_channels_dict[1]
    THEN Outcome(RearPreamble, sample_count_1, <<FALSE>>, <<mode>>,
                 "KeyError", <<>>)
    ELSE LET channels ==
                 ChannelsStr(StripBrackets(PyListStr(modes_channels_dict[1][mode])))
             samp_count == SampCount(channels)
             head == RearPreamble \o
                     <<s_TRIG_COUN_1, s_SAMP_COUN \o DecStr(samp_count)>>
         IN IF samp_count = 1
            THEN SingleChannelBranch(mode, channels, head)
            ELSE MultiChannelBranch(mode, channels, head)

\* REAR panel branch: mode = mode[5:]
RearPanel(mode0) ==
    LET mode == SliceFrom(mode0, 5)
    IN IF Contains(mode, s_SCAN_LIST)
       THEN ScanListBranch(mode)
       ELSE FilteredBranch(mode)

\* set_mode(mode) from the current state
SetModeOutcome(arg) ==
    LET mode == Upper(arg)
    IN IF _instr # "open"
       THEN Outcome(<<>>, sample_count_1, reading_scan_list, current_mode,
                    TransportError, <<>>)
       ELSE IF ~Contains(mode, s_SCAN)
       THEN FrontPanel(mode)
       ELSE RearPanel(mode)

-----------------------------------------------------------------------------
(* data: the reply decoder *)

\* s.split(",")
RECURSIVE SplitComma(_)
SplitComma(s) ==
    LET commas == {i \in DOMAIN s : s[i] = ","}
    IN IF commas = {} THEN <<s>>
       ELSE LET i == CHOOSE c \in commas : \A d \in commas : c <= d
            IN <<SubSeq(s, 1, i - 1)>> \o SplitComma(SubSeq(s, i + 1, Len(s)))

\* l[off::3]
Stride3(l, off) ==
    LET n == IF Len(l) > off THEN (Len(l) - off + 2) \div 3 ELSE 0
    IN [i \in 1..n |-> l[off + 3 * (i - 1) + 1]]

\* StripUnits slicing tok[:-l1] also when l1 == 0
StripUnits_NoZeroCase(tok) ==
    LET hits == {l1 \in 0..(Len(tok) - 1) : IsDigit(tok[Len(tok) - l1])}
    IN IF hits = {} THEN <<>>
       ELSE LET l1 == CHOOSE h \in hits : \A g \in hits : h <= g
            IN IF l1 = 0 THEN <<>> ELSE SubSeq(tok, 1, Len(tok) - l1)

\* The inner loop over l1: the token up to its last digit, '' without a digit
StripUnits(tok) ==
    LET hits == {l1 \in 0..(Len(tok) - 1) : IsDigit(tok[Len(tok) - l1])}
    IN IF hits = {} THEN <<>>
       ELSE LET l1 == CHOOSE h \in hits : \A g \in hits : h <= g
            IN IF l1 = 0 THEN tok ELSE SubSeq(tok, 1, Len(tok) - l1)

AllDigits(s) == \A i \in DOMAIN s : IsDigit(s[i])

\* int(s) for a string of digits ('' gives 0)
RECURSIVE DigitsToInt(_)
DigitsToInt(s) ==
    IF s = <<>> THEN 0
    ELSE 10 * DigitsToInt(SubSeq(s, 1, Len(s) - 1)) + DigitValue(s[Len(s)])

\* m * 10^e with the trailing zeros of m moved into e
RECURSIVE Normalize(_, _)
Normalize(m, e) ==
    IF m = 0 THEN <<0, 0>>
    ELSE IF m % 10 = 0 THEN Normalize(m \div 10, e + 1)
    ELSE <<m, e>>

\* The value float(s) stands for, as <<mantissa, decimal exponent>>;
\* <<>> when float(s) raises ValueError
ParseFloat(s) ==
    LET signed == s # <<>> /\ s[1] \in {"+", "-"}
        body == IF signed THEN Tail(s) ELSE s
        es == {i \in DOMAIN body : body[i] \in {"E", "e"}}
        ePos == IF es = {} THEN 0 ELSE CHOOSE i \in es : \A k \in es : i <= k
        mant == IF ePos = 0 THEN body ELSE SubSeq(body, 1, ePos - 1)
        expo == IF ePos = 0 THEN <<>> ELSE SubSeq(body, ePos + 1, Len(body))
        expSigned == expo # <<>> /\ expo[1] \in {"+", "-"}
        expBody == IF expSigned THEN Tail(expo) ELSE expo
        dots == {i \in DOMAIN mant : mant[i] = "."}
        dPos == IF dots = {} THEN 0 ELSE CHOOSE i \in dots : \A k \in dots : i <= k
        ip == IF dPos = 0 THEN mant ELSE SubSeq(mant, 1, dPos - 1)
        fp == IF dPos = 0 THEN <<>> ELSE SubSeq(mant, dPos + 1, Len(mant))
        valid == /\ AllDigits(ip) /\ AllDigits(fp)
                 /\ Len(ip) + Len(fp) >= 1
                 /\ ePos # 0 => (expBody # <<>> /\ AllDigits(expBody))
        m == DigitsToInt(ip \o fp)
        ev == DigitsToInt(expBody)
    IN IF ~valid THEN <<>>
       ELSE Normalize(IF signed /\ s[1] = "-" THEN 0 - m ELSE m,
                      (IF expSigned /\ expo[1] = "-" THEN 0 - ev ELSE ev)
                      - Len(fp))

\* ParseFails looking at the first entry only
ParseFails_FirstOnly(l) == ParseFloat(l[1]) = <<>>

\* np.array(l, dtype=float): the parsed values
ParseAll(l) == [i \in DOMAIN l |-> ParseFloat(l[i])]

\* np.array(l, dtype=float) raises ValueError
ParseFails(l) == \E i \in DOMAIN l : ParseFloat(l[i]) = <<>>

\* The commands data() writes before decoding
FetchCommands ==
    IF sample_count_1 = <<FALSE>> THEN <<s_INIT, s_TRG, s_FETCH>>
    ELSE <<s_FETCH>>

DataOutcome(cmds, res, vals, ts) ==
    [sent |-> cmds, result |-> res, values |-> vals, times |-> ts]

\* Decode keeping the measurements of the previous call in front of the
\* new ones
Decode_Accumulates(str_answer, cmds) ==
    LET list_split_answer == SplitComma(str_answer)
        list_measurements == Stride3(list_split_answer, 0)
        list_times == Stride3(list_split_answer, 1)
        n == Len(list_measurements)
    IN IF Len(list_times) < n
       THEN DataOutcome(cmds, "IndexError", <<>>, <<>>)
       ELSE LET list_measurements_values ==
                    SplitComma(Join([j \in 1..n |->
                        StripUnits(list_measurements[j])], <<",">>))
                list_times_values ==
                    SplitComma(Join([j \in 1..n |->
                        StripUnits(list_times[j])], <<",">>))
            IN IF ParseFails(list_measurements_values)
               THEN DataOutcome(cmds, "ValueError", <<>>, <<>>)
               ELSE IF sample_count_1 = <<FALSE>>
               THEN IF ParseFails(list_times_values)
                    THEN DataOutcome(cmds, "ValueError", <<>>, <<>>)
                    ELSE DataOutcome(cmds, "ok",
                                     values \o ParseAll(list_measurements_values),
                                     ParseAll(list_times_values))
               ELSE DataOutcome(cmds, "ok",
                                values \o ParseAll(list_measurements_values),
                                <<Normalize(0, 0)>>)

\* The decoding part of data() on the reply str_answer
Decode(str_answer, cmds) ==
    LET list_split_answer == SplitComma(str_answer)
        list_measurements == Stride3(list_split_answer, 0)
        list_times == Stride3(list_split_answer, 1)
        n == Len(list_measurements)
    IN IF Len(list_times) < n
       THEN DataOutcome(cmds, "IndexError", <<>>, <<>>)
       ELSE LET str_measurements ==
                    Join([j \in 1..n |-> StripUnits(list_measurements[j])], <<",">>)
                str_times ==
                    Join([j \in 1..n |-> StripUnits(list_times[j])], <<",">>)
                list_measurements_values == SplitComma(str_measurements)
                list_times_values == SplitComma(str_times)
            IN IF ParseFails(list_measurements_values)
               THEN DataOutcome(cmds, "ValueError", <<>>, <<>>)
               ELSE IF sample_count_1 = <<FALSE>>
               THEN IF ParseFails(list_times_values)
                    THEN DataOutcome(cmds, "ValueError", <<>>, <<>>)
                    ELSE DataOutcome(cmds, "ok",
                                     ParseAll(list_measurements_values),
                                     ParseAll(list_times_values))
               ELSE DataOutcome(cmds, "ok",
                                ParseAll(list_measurements_values),
                                <<Normalize(0, 0)>>)

\* data() from the current state, the instrument answering str_answer
DataCall(str_answer) ==
    IF ~IsSet(sample_count_1)
    THEN DataOutcome(<<>>, "AttributeError", <<>>, <<>>)
    ELSE IF _instr # "open"
    THEN DataOutcome(<<>>, TransportError, <<>>, <<>>)
    ELSE Decode(str_answer, FetchCommands)

-----------------------------------------------------------------------------
(* Inputs *)

\* 'volt:dc'
m_volt_dc == <<"v", "o", "l", "t", ":", "d", "c">>
\* 'RES'
m_RES == <<"R", "E", "S">>
\* 'FOO'
m_FOO == <<"F", "O", "O">>
\* 'scan_volt:dc'
m_scan_volt_dc == <<"s", "c", "a", "n", "_", "v", "o", "l", "t", ":", "d", "c">>
\* 'SCAN_RES'
m_SCAN_RES == <<"S", "C", "A", "N", "_", "R", "E", "S">>
\* 'SCAN_TEMP'
m_SCAN_TEMP == <<"S", "C", "A", "N", "_", "T", "E", "M", "P">>
\* 'SCAN_SCAN_LIST'
m_SCAN_SCAN_LIST == <<"S", "C", "A", "N", "_", "S", "C", "A", "N", "_", "L", "I", "S", "T">>
\* 'Scan_Scan_List'
m_Scan_Scan_List == <<"S", "c", "a", "n", "_", "S", "c", "a", "n", "_", "L", "i", "s", "t">>
\* 'SCAN_LIST'
m_SCAN_LIST == <<"S", "C", "A", "N", "_", "L", "I", "S", "T">>
\* 'SCAN_FOO'
m_SCAN_FOO == <<"S", "C", "A", "N", "_", "F", "O", "O">>

\* Mode names passed to set_mode
Modes == {m_volt_dc, m_RES, m_FOO, m_scan_volt_dc, m_SCAN_RES, m_SCAN_TEMP,
          m_SCAN_SCAN_LIST, m_Scan_Scan_List, m_SCAN_LIST, m_SCAN_FOO}

\* '-5.0000E-01ADC'
t_ADC == <<"-", "5", ".", "0", "0", "0", "0", "E", "-", "0", "1", "A", "D", "C">>
\* '20'
t_20 == <<"2", "0">>
\* 'ABC'
t_ABC == <<"A", "B", "C">>
\* 'R2W'
t_R2W == <<"R", "2", "W">>
\* '+0.01SEC'
t_SEC == <<"+", "0", ".", "0", "1", "S", "E", "C">>
\* 'SEC'
t_NOSEC == <<"S", "E", "C">>
\* '+1RDNG#'
t_RDNG == <<"+", "1", "R", "D", "N", "G", "#">>

\* Tokens the instrument puts at the measurement, timestamp and
\* reading-count positions of a reply
MeasTokens == {t_ADC, t_20, t_ABC, t_R2W}
TimeTokens == {t_SEC, t_NOSEC}
RdngTokens == {t_RDNG}

TokensAt(i) ==
    IF i % 3 = 1 THEN MeasTokens
    ELSE IF i % 3 = 2 THEN TimeTokens
    ELSE RdngTokens

\* Replies of n tokens, each token of the kind of its position
RECURSIVE RepliesOfLen(_)
RepliesOfLen(n) ==
    IF n = 1 THEN MeasTokens
    ELSE {r \o <<",">> \o t : r \in RepliesOfLen(n - 1), t \in TokensAt(n)}

\* FETCH? replies of 1..MaxTokens tokens
Replies == UNION {RepliesOfLen(n) : n \in 1..MaxTokens}

\* FETCH? replies of the facade's state machine: a complete group, a group
\* whose measurement has no digit, and a measurement alone
FacadeReplies ==
    {t_ADC \o <<",">> \o t_SEC \o <<",">> \o t_RDNG,
     t_ABC \o <<",">> \o t_SEC \o <<",">> \o t_RDNG,
     t_ADC}

\* Channel configurations: n channels, each assigned one function
Configs ==
    UNION {{<<ChannelIds(n), a>> : a \in [1..n -> AssignedKeys]} :
              n \in 0..MaxChannels}

-----------------------------------------------------------------------------
(* State machine *)

\* __init__; the class-level attributes are commented out
Init ==
    /\ _instr = "None"
    /\ instr = ""
    /\ sample_count_1 = Unset
    /\ reading_scan_list = Unset
    /\ current_mode = Unset
    /\ channels_scan_list = Unset
    /\ modes_channels_dict = Unset
    /\ lastInitCont = "none"
    /\ lastOp = "__init__"
    /\ lastArg = <<>>
    /\ sent = <<>>
    /\ result = "ok"
    /\ returned = <<>>
    /\ values = <<>>
    /\ times = <<>>
    /\ repeated = FALSE

\* What a call that is not data() leaves of the previous data() result
NoData == values' = <<>> /\ times' = <<>>

\* A call that is not set_mode
NoRepeat == repeated' = FALSE

\* The caller assigns channels_scan_list and modes_channels_dict
Configure ==
    \E c \in Configs :
        /\ channels_scan_list' = <<ScanListStr(c[1])>>
        /\ modes_channels_dict' = <<ModesDict(c[1], c[2])>>
        /\ lastOp' = "configure"
        /\ lastArg' = <<>>
        /\ sent' = <<>>
        /\ result' = "ok"
        /\ returned' = <<>>
        /\ NoData
        /\ NoRepeat
        /\ UNCHANGED <<_instr, instr, sample_count_1, reading_scan_list,
                       current_mode, lastInitCont>>

\* InitHardwareOutcome without the except clause: the VisaIOError of a
\* failed open reaches the caller
InitHardwareOutcome_Reraises(opened, matched) ==
    IF ~opened
    THEN [_instr |-> _instr, instr |-> instr, sent |-> <<>>,
          result |-> "VisaIOError"]
    ELSE [_instr |-> "open",
          instr |-> IF matched THEN "INSTRUMENT01" ELSE instr,
          sent |-> <<s_IDN>>,
          result |-> IF matched \/ instr # "" THEN "ok" ELSE "KeyError"]

\* init_hardware: opened tells whether rm.open_resource succeeded, matched
\* whether rsrc_name is found in the configuration
InitHardwareOutcome(opened, matched) ==
    IF ~opened
    THEN [_instr |-> _instr, instr |-> instr, sent |-> <<>>, result |-> "ok"]
    ELSE [_instr |-> "open",
          instr |-> IF matched THEN "INSTRUMENT01" ELSE instr,
          sent |-> <<s_IDN>>,
          result |-> IF matched \/ instr # "" THEN "ok" ELSE "KeyError"]

init_hardware ==
    \E opened \in BOOLEAN, matched \in BOOLEAN :
        LET o == InitHardwareOutcome(opened, matched)
        IN /\ _instr' = o._instr
           /\ instr' = o.instr
           /\ sent' = o.sent
           /\ result' = o.result
           /\ lastOp' = "init_hardware"
           /\ lastArg' = <<>>
           /\ returned' = <<>>
           /\ NoData
           /\ NoRepeat
           /\ UNCHANGED <<sample_count_1, reading_scan_list, current_mode,
                          channels_scan_list, modes_channels_dict, lastInitCont>>

\* A method that only writes the commands cmds
WriteOutcome(cmds) ==
    IF _instr # "open" THEN [sent |-> <<>>, result |-> TransportError]
    ELSE [sent |-> cmds, result |-> "ok"]

CloseOutcome == WriteOutcome(<<s_ROUT_OPEN_ALL>>)

close ==
    /\ sent' = CloseOutcome.sent
    /\ result' = CloseOutcome.result
    /\ _instr' = IF CloseOutcome.result = "ok" THEN "closed" ELSE _instr
    /\ lastOp' = "close"
    /\ lastArg' = <<>>
    /\ returned' = <<>>
    /\ NoData
    /\ NoRepeat
    /\ UNCHANGED <<instr, sample_count_1, reading_scan_list, current_mode,
                   channels_scan_list, modes_channels_dict, lastInitCont>>

ResetOutcome == WriteOutcome(<<s_CLS, s_RST>>)

reset ==
    /\ sent' = ResetOutcome.sent
    /\ result' = ResetOutcome.result
    /\ lastOp' = "reset"
    /\ lastArg' = <<>>
    /\ returned' = <<>>
    /\ NoData
    /\ NoRepeat
    /\ UNCHANGED <<_instr, instr, sample_count_1, reading_scan_list,
                   current_mode, channels_scan_list, modes_channels_dict,
                   lastInitCont>>

StopOutcome == WriteOutcome(<<s_ROUT_SCAN_LSEL_NONE>>)

stop_acquisition ==
    /\ sent' = StopOutcome.sent
    /\ result' = StopOutcome.result
    /\ lastOp' = "stop_acquisition"
    /\ lastArg' = <<>>
    /\ returned' = <<>>
    /\ NoData
    /\ NoRepeat
    /\ UNCHANGED <<_instr, instr, sample_count_1, reading_scan_list,
                   current_mode, channels_scan_list, modes_channels_dict,
                   lastInitCont>>

set_mode ==
    \E mode \in Modes :
        LET o == SetModeOutcome(mode)
        IN /\ sample_count_1' = o.sample_count_1
           /\ reading_scan_list' = o.reading_scan_list
           /\ current_mode' = o.current_mode
           /\ sent' = o.sent
           /\ result' = o.result
           /\ returned' = o.returned
           /\ lastInitCont' = InitContAfter(lastInitCont, o.sent)
           /\ lastOp' = "set_mode"
           /\ lastArg' = mode
           /\ repeated' = (lastOp = "set_mode" /\ lastArg = mode)
           /\ NoData
           /\ UNCHANGED <<_instr, instr, channels_scan_list,
                          modes_channels_dict>>

\* One data() call, the instrument's reply drawn from replies
DataStep(replies) ==
    \E str_answer \in replies :
        LET o == DataCall(str_answer)
        IN /\ sent' = o.sent
           /\ result' = o.result
           /\ values' = o.values
           /\ times' = o.times
           /\ lastOp' = "data"
           /\ lastArg' = str_answer
           /\ returned' = <<>>
           /\ NoRepeat
           /\ UNCHANGED <<_instr, instr, sample_count_1, reading_scan_list,
                          current_mode, channels_scan_list,
                          modes_channels_dict, lastInitCont>>

data == DataStep(FacadeReplies)

Next ==
    \/ Configure
    \/ init_hardware
    \/ set_mode
    \/ data
    \/ reset
    \/ stop_acquisition
    \/ close

Spec == Init /\ [][Next]_vars

-----------------------------------------------------------------------------
(* The decoder on every reply of the bound *)

\* The facade after init_hardware and set_mode('volt:dc')
FrontPanelState ==
    /\ _instr = "open"
    /\ instr = "INSTRUMENT01"
    /\ sample_count_1 = <<TRUE>>
    /\ reading_scan_list = <<FALSE>>
    /\ current_mode = Unset
    /\ channels_scan_list = Unset
    /\ modes_channels_dict = Unset
    /\ lastInitCont = "ON"
    /\ lastOp = "set_mode"
    /\ lastArg = m_volt_dc
    /\ sent = <<s_INIT_CONT_ON, FuncCmd(k_VOLT_DC)>>
    /\ result = "ok"
    /\ returned = <<>>
    /\ values = <<>>
    /\ times = <<>>
    /\ repeated = FALSE

\* The facade after init_hardware, a two-channel configuration and
\* set_mode('SCAN_SCAN_LIST')
ScanListState ==
    /\ _instr = "open"
    /\ instr = "INSTRUMENT01"
    /\ sample_count_1 = <<FALSE>>
    /\ reading_scan_list = <<TRUE>>
    /\ current_mode = <<s_SCAN_LIST>>
    /\ channels_scan_list = <<ScanListStr(ChannelIds(2))>>
    /\ modes_channels_dict =
           <<ModesDict(ChannelIds(2), <<k_VOLT_DC, k_VOLT_DC>>)>>
    /\ lastInitCont = "OFF"
    /\ lastOp = "set_mode"
    /\ lastArg = m_SCAN_SCAN_LIST
    /\ sent = ScanListBranch(s_SCAN_LIST).sent
    /\ result = "ok"
    /\ returned = ScanListBranch(s_SCAN_LIST).returned
    /\ values = <<>>
    /\ times = <<>>
    /\ repeated = FALSE

InitDecoder == FrontPanelState \/ ScanListState

\* data() with the instrument answering any reply of the bound
decode_reply == DataStep(Replies)

NextDecoder == decode_reply

SpecDecoder == InitDecoder /\ [][NextDecoder]_vars

-----------------------------------------------------------------------------
(* Vocabulary of the properties *)

Range(s) == {s[i] : i \in DOMAIN s}

HasPrefix(s, p) == Len(s) >= Len(p) /\ SubSeq(s, 1, Len(p)) = p

\* The controller flags
Flags == <<sample_count_1, reading_scan_list, current_mode>>

\* The last call was set_mode on an open transport
SetModeDone == lastOp = "set_mode" /\ _instr = "open"

\* The requested mode carries the rear-panel marker
RearRequested == Contains(Upper(lastArg), s_SCAN)

\* The function a rear-panel request names
RequestedFunction == SliceFrom(Upper(lastArg), 5)

\* The last call was a rear-panel set_mode naming a function with n
\* assigned channels
FilteredCall(n) ==
    /\ SetModeDone
    /\ RearRequested
    /\ IsSet(modes_channels_dict)
    /\ RequestedFunction \in DOMAIN modes_channels_dict[1]
    /\ Len(modes_channels_dict[1][RequestedFunction]) = n

\* The last call was set_mode with the full-scan-list mode, the scan list
\* holding n channels
ScanListCall(n) ==
    /\ SetModeDone
    /\ Upper(lastArg) = m_SCAN_SCAN_LIST
    /\ IsSet(channels_scan_list)
    /\ channels_scan_list[1] = ScanListStr(ChannelIds(n))

\* The sample-count commands among the commands of the last call
SampleCountCommands == {c \in Range(sent) : HasPrefix(c, s_SAMP_COUN)}

\* The tokens of the reply of the last data() call
Tokens == SplitComma(lastArg)
MeasAt(i) == Tokens[3 * (i - 1) + 1]
TimeAt(i) == Tokens[3 * (i - 1) + 2]

HasDigit(tok) == \E i \in DOMAIN tok : IsDigit(tok[i])

\* tok up to and including its last digit
CutAfterLastDigit(tok) ==
    IF ~HasDigit(tok) THEN <<>>
    ELSE SubSeq(tok, 1, CHOOSE i \in DOMAIN tok :
                            /\ IsDigit(tok[i])
                            /\ \A k \in DOMAIN tok : k > i => ~IsDigit(tok[k]))

IsFloatLiteral(s) == ParseFloat(s) # <<>>

\* The last call was data() on an open transport
DataDone == lastOp = "data" /\ _instr = "open"

\* data() returned one value and one timestamp per complete group
GroupsDecoded ==
    LET k == Len(Tokens) \div 3
    IN /\ result = "ok"
       /\ Len(values) = k
       /\ Len(times) = k
       /\ \A i \in 1..k :
             /\ values[i] = ParseFloat(CutAfterLastDigit(MeasAt(i)))
             /\ times[i] = ParseFloat(CutAfterLastDigit(TimeAt(i)))

\* The reply is k >= 1 complete groups, decoded with sample_count_1 false
CompleteGroups ==
    /\ DataDone
    /\ sample_count_1 = <<FALSE>>
    /\ Len(Tokens) % 3 = 0

-----------------------------------------------------------------------------
(* Properties *)

\* C1: after set_mode with a mode name without the rear-panel marker,
\* whatever the flags were before, sample_count_1 is true,
\* reading_scan_list is false, the last INIT:CONT command is ON, and the
\* commands written are INIT:CONT ON followed by the one FUNC command.
C1_FrontPanelMode ==
    (SetModeDone /\ ~RearRequested) =>
        /\ result = "ok"
        /\ sample_count_1 = <<TRUE>>
        /\ reading_scan_list = <<FALSE>>
        /\ lastInitCont = "ON"
        /\ sent = <<s_INIT_CONT_ON, s_FUNC \o Upper(lastArg) \o s_QUOTE>>

\* A front-panel selection made after the full scan list had been selected
C1_Witness ==
    /\ SetModeDone
    /\ ~RearRequested
    /\ result = "ok"
    /\ current_mode = <<s_SCAN_LIST>>

\* C2: set_mode('SCAN_SCAN_LIST'), in any letter case, with a scan list of
\* n >= 2 channels writes the sample-count command for n and ends with
\* reading_scan_list true and sample_count_1 false.
C2_ScanListSampleCount ==
    \A n \in 2..MaxChannels :
        ScanListCall(n) =>
            /\ result = "ok"
            /\ SampleCountCommands = {s_SAMP_COUN \o DecStr(n)}
            /\ reading_scan_list = <<TRUE>>
            /\ sample_count_1 = <<FALSE>>

\* The full scan list of MaxChannels channels requested as 'Scan_Scan_List'
C2_Witness ==
    /\ ScanListCall(MaxChannels)
    /\ lastArg = m_Scan_Scan_List
    /\ result = "ok"

\* C3: set_mode with a rear-panel mode naming a function with exactly one
\* assigned channel ends with sample_count_1 true, reading_scan_list false
\* and INIT:CONT ON, closes the channel's route and selects the function,
\* and neither programs nor enables a scan.
C3_SingleChannel ==
    FilteredCall(1) =>
        LET channels == ChannelsStr(
                DecStr(modes_channels_dict[1][RequestedFunction][1]))
        IN /\ result = "ok"
           /\ sample_count_1 = <<TRUE>>
           /\ reading_scan_list = <<FALSE>>
           /\ lastInitCont = "ON"
           /\ s_ROUT_CLOS \o channels \in Range(sent)
           /\ FuncCmd(RequestedFunction) \in Range(sent)
           /\ s_ROUT_SCAN \o channels \notin Range(sent)
           /\ s_ROUT_SCAN_LSEL_INT \notin Range(sent)

\* C4: set_mode with a rear-panel mode naming a function with no assigned
\* channel raises, writes no command and leaves the flags as they were.
C4_ZeroChannelsRejected ==
    [][(lastOp' = "set_mode" /\ FilteredCall(0)')
          => (result' # "ok" /\ sent' = <<>> /\ Flags' = Flags)]_vars

\* C5: with sample_count_1 true, a reply of one measurement token that is a
\* number followed by its unit decodes to that number and the timestamps
\* are the single element 0.0.
C5_SingleSampleNoTimestamp ==
    (/\ DataDone
     /\ sample_count_1 = <<TRUE>>
     /\ Len(Tokens) = 1
     /\ IsFloatLiteral(CutAfterLastDigit(Tokens[1])))
        => /\ result = "ok"
           /\ values = <<ParseFloat(CutAfterLastDigit(Tokens[1]))>>
           /\ times = <<Normalize(0, 0)>>

\* C6, as stated: with sample_count_1 false, every reply of complete groups
\* whose measurement and timestamp tokens each hold a digit decodes to one
\* value and one timestamp per group, each token cut after its last digit.
C6_AnyDigitTokens ==
    (/\ CompleteGroups
     /\ \A i \in 1..(Len(Tokens) \div 3) :
           HasDigit(MeasAt(i)) /\ HasDigit(TimeAt(i)))
        => GroupsDecoded

\* C6, amended: the same for the replies whose measurement and timestamp
\* tokens, cut after their last digit, are float literals.
C6_NumericTokens ==
    (/\ CompleteGroups
     /\ \A i \in 1..(Len(Tokens) \div 3) :
           /\ IsFloatLiteral(CutAfterLastDigit(MeasAt(i)))
           /\ IsFloatLiteral(CutAfterLastDigit(TimeAt(i))))
        => GroupsDecoded

\* Two complete groups with different measurements, decoded
C6_Witness ==
    /\ CompleteGroups
    /\ Len(Tokens) = 6
    /\ MeasAt(1) = t_20
    /\ MeasAt(2) = t_ADC
    /\ result = "ok"
    /\ values = <<<<2, 1>>, <<-5, -1>>>>

\* C7: when a measurement token of the reply holds no digit, data() raises
\* and returns neither values nor timestamps, in both sample modes.
C7_NoDigitFails ==
    (/\ DataDone
     /\ \E i \in DOMAIN Tokens : i % 3 = 1 /\ ~HasDigit(Tokens[i]))
        => /\ result # "ok"
           /\ values = <<>>
           /\ times = <<>>

\* A good group followed by a group whose measurement is 'ABC', decoded
\* with sample_count_1 true
C7_Witness ==
    /\ DataDone
    /\ sample_count_1 = <<TRUE>>
    /\ Len(Tokens) = 6
    /\ HasDigit(Tokens[1])
    /\ Tokens[4] = t_ABC
    /\ result = "ValueError"

\* C8: a set_mode call that repeats the mode of the set_mode call right
\* before it writes the same commands and leaves the flags as that call
\* left them.
C8_Idempotent ==
    [][(lastOp = "set_mode" /\ lastOp' = "set_mode" /\ lastArg' = lastArg)
          => (sent' = sent /\ Flags' = Flags /\ result' = result)]_vars

\* The single-channel rear-panel mode selected twice in a row
C8_Witness ==
    /\ repeated
    /\ FilteredCall(1)
    /\ result = "ok"

\* C9: close() completes in every state, writing ROUT:OPEN:ALL and then
\* releasing the transport.
C9_CloseAlwaysSafe ==
    lastOp = "close" =>
        /\ result = "ok"
        /\ sent = <<s_ROUT_OPEN_ALL>>
        /\ _instr = "closed"

UnknownRequested ==
    IF RearRequested
    THEN /\ RequestedFunction \notin ModeKeys
         /\ ~Contains(RequestedFunction, s_SCAN_LIST)
         /\ Upper(lastArg) # m_SCAN_LIST
    ELSE Upper(lastArg) \notin ModeKeys

\* C11: set_mode with an unknown function token, with or without the
\* rear-panel marker, raises before any command is written; the token is
\* never forwarded to the instrument.
C11_UnknownModeRejected ==
    (SetModeDone /\ UnknownRequested) =>
        /\ result # "ok"
        /\ sent = <<>>

\* C12: set_mode with the full-scan-list mode and an empty scan list raises
\* before any command is written: no scan of an empty channel set is
\* programmed and no sample-count command is sent.
C12_EmptyScanListRejected ==
    ScanListCall(0) =>
        /\ result # "ok"
        /\ sent = <<>>

\* The number of fetch queries among the commands of the last call
FetchQueries == Cardinality({i \in DOMAIN sent : sent[i] = s_FETCH})

\* C13: every data() call writes exactly one FETCH? query; with
\* sample_count_1 false it comes right after INIT and *TRG, with
\* sample_count_1 true it is the only command.
C13_FetchSequence ==
    DataDone =>
        /\ FetchQueries = 1
        /\ sample_count_1 # <<TRUE>> => sent = <<s_INIT, s_TRG, s_FETCH>>
        /\ sample_count_1 = <<TRUE>> => sent = <<s_FETCH>>

C15_DocumentedScanList ==
    (/\ SetModeDone
     /\ Upper(lastArg) = m_SCAN_LIST
     /\ IsSet(channels_scan_list)
     /\ IsSet(modes_channels_dict))
        => /\ result = "ok"
           /\ reading_scan_list = <<TRUE>>
           /\ s_ROUT_SCAN \o ChannelsStr(channels_scan_list[1]) \in Range(sent)
           /\ s_ROUT_SCAN_LSEL_INT \in Range(sent)

\* The flags a successful set_mode of the requested mode leaves on a driver
\* that had selected no mode before, or, for the single-channel rear mode
\* (which fails there), on any driver it succeeds on
DeterminedFlags ==
    IF ~RearRequested THEN <<<<TRUE>>, <<FALSE>>, Unset>>
    ELSE IF Contains(RequestedFunction, s_SCAN_LIST)
    THEN <<<<FALSE>>, <<TRUE>>, <<RequestedFunction>>>>
    ELSE IF Len(modes_channels_dict[1][RequestedFunction]) > 1
    THEN <<<<FALSE>>, <<FALSE>>, <<RequestedFunction>>>>
    ELSE <<<<TRUE>>, <<FALSE>>, <<RequestedFunction>>>>

\* C16: after a successful set_mode the flags, current_mode included, are
\* those the requested mode and the channel configuration determine,
\* whatever they were before the call.
C16_FlagsDetermined ==
    (SetModeDone /\ result = "ok") => Flags = DeterminedFlags

\* C17: after every set_mode call, reading_scan_list true implies that the
\* last INIT:CONT command written is OFF.
C17_ScanListImpliesContOff ==
    (lastOp = "set_mode" /\ reading_scan_list = <<TRUE>>)
        => lastInitCont = "OFF"

\* The full scan list selected twice in a row
C17_Witness ==
    /\ SetModeDone
    /\ repeated
    /\ result = "ok"
    /\ reading_scan_list = <<TRUE>>

\* C18: set_mode with the full-scan-list mode and a scan list of n >= 1
\* channels writes exactly nine commands: clear buffer, INIT:CONT OFF,
\* trigger count 1, trigger source BUS, sample count, scan disabled, the
\* scan-list channels, scan timing immediate, scan enabled.
C18_ScanListCommands ==
    \A n \in 1..MaxChannels :
        ScanListCall(n) =>
            sent = <<s_TRAC_CLE,
                     s_INIT_CONT_OFF,
                     s_TRIG_COUN_1,
                     s_TRIG_SOUR_BUS,
                     s_SAMP_COUN \o DecStr(n),
                     s_ROUT_SCAN_LSEL_NONE,
                     s_ROUT_SCAN \o s_OPEN_AT
                         \o ScanListStr(ChannelIds(n)) \o s_CLOSE_PAREN,
                     s_ROUT_SCAN_TSO_IMM,
                     s_ROUT_SCAN_LSEL_INT>>

\* The full scan list of one channel selected as 'SCAN_SCAN_LIST'
C18_Witness ==
    /\ ScanListCall(1)
    /\ lastArg = m_SCAN_SCAN_LIST
    /\ result = "ok"
    /\ Len(sent) = 9

\* C19: a data() call leaves sample_count_1, reading_scan_list and
\* current_mode as they were, whether it returns or raises, and a data()
\* call that gets the reply of the data() call right before it gives the
\* same outcome: nothing of the earlier call is retained.
C19_DataKeepsState ==
    [][lastOp' = "data"
          => /\ Flags' = Flags
             /\ (lastOp = "data" /\ lastArg' = lastArg)
                   => /\ result' = result
                      /\ values' = values
                      /\ times' = times
                      /\ sent' = sent]_vars

\* A data() call that raised on the reply, the full scan list still selected
C19_Witness ==
    /\ DataDone
    /\ result = "ValueError"
    /\ Flags = <<<<FALSE>>, <<TRUE>>, <<s_SCAN_LIST>>>>

\* C20: in every state sample_count_1 true implies that the last INIT:CONT
\* command written is ON, so data() never writes FETCH? alone while
\* continuous initiation is off.
C20_SingleSampleImpliesContOn ==
    /\ sample_count_1 = <<TRUE>> => lastInitCont = "ON"
    /\ (DataDone /\ sent = <<s_FETCH>>) => lastInitCont = "ON"

====
